---- MODULE Spec2Model ----
(***************************************************************************)
(* State-machine model of the code-implementation workflow of sheep        *)
(* (src/src/sheep/flows/code_implementation.py).                           *)
(*                                                                         *)
(* The workflow is a crewai Flow: every step is a method, and the          *)
(* decorators say which completion event starts it.  @listen(m) and        *)
(* @router(m) register the method on the event named after method m;       *)
(* @listen("label") registers it on that label.  When a method returns,    *)
(* the engine emits the method's name as an event and starts the methods   *)
(* registered on it, passing the return value; the return value of a       *)
(* router is itself emitted as an event.  Method names and router labels   *)
(* share one namespace.                                                    *)
(*                                                                         *)
(* Each step is one atomic action (the whole method body).  The outcomes   *)
(* of the collaborators the steps call (agents, the VCS tools) are the     *)
(* inputs of the actions.                                                  *)
(***************************************************************************)
EXTENDS Naturals, Sequences, FiniteSets

VARIABLES
    \* ---- engine ----
    pc,                 \* the method the engine runs next; "done" after kickoff returned;
                        \* "unit_test" for a flow object whose methods are called directly
    arg,                \* the value the engine passes to that method
    \* ---- inputs / environment ----
    repo_exists,        \* Path(repo_path).resolve().exists()
    use_worktree,
    auto_push,
    fast_mode,          \* the mode the caller asked for; no step of the flow reads it
    \* ---- CodeImplementationState ----
    branch_name,
    working_path,
    research_findings,
    changes_made,
    commit_message,
    review_result,
    review_passed,
    review_iterations,
    pushed,
    final_status,
    error,
    \* ---- observation of the run (not program state) ----
    returned,           \* last value returned by each method ("none" = never ran)
    agent_log,          \* the agent invocations (crew.kickoff) of the run, in order,
                        \* each with how it ended
    status_writes,      \* number of assignments to final_status
    commit_runs,        \* number of executions of commit_and_push
    commit_calls,       \* number of GitCommitTool._run calls
    push_calls,         \* number of GitPushTool._run calls
    tool_log,           \* how the VCS tool call of setup_branch ended, and how the commit
                        \* and push calls of the last commit_and_push ended ("none": not called)
    routed,             \* last direct router call of a unit test: router, arg, fast_mode, result
    impl_task,          \* what implement_changes last built: the parts of the Task
                        \* description, the llm handed to the implementer factory, and
                        \* the number of get_fast_llm calls
    \* ---- other components, each called on its own (pc names the component) ----
    tool_call,          \* last direct call of a tool facade: tool, failure of the
                        \* underlying action, result
    validation,         \* last SpecInput(user_query=...) construction: the text, the
                        \* configured thresholds, the validator's result
    emission,           \* one emit_validation_skipped_event call: its inputs, the
                        \* client requests made, the events created, the outcome
    cli,                \* one invocation of the implement command: its options,
                        \* the workflow runs started, the warnings logged, the exit code
    chat,               \* one run of ChatFlow: ChatState, the given context path,
                        \* the executions of answer_question and of the chat agent
    slugged,            \* one slug built from an issue text: the text and the slug
    traced,             \* one run_code_implementation call under trace_flow: the
                        \* backend, how its calls and kickoff ended, the outcome
    web_search          \* one WebSearchTool._run call: outcome of each search attempt so
                        \* far, the sleeps so far (seconds), result ("none": running)

vars == <<pc, arg, repo_exists, use_worktree, auto_push, branch_name, working_path,
          research_findings, changes_made, commit_message, review_result,
          review_passed, review_iterations, pushed, final_status, error,
          returned, agent_log, status_writes, commit_runs, commit_calls,
          push_calls, tool_log, fast_mode, routed, impl_task,
          tool_call, web_search, validation, emission, cli, chat,
          slugged, traced>>

stateVars == <<branch_name, working_path, research_findings, changes_made,
               commit_message, review_result, review_passed, review_iterations,
               pushed, final_status, error>>

obsVars == <<returned, agent_log, status_writes, commit_runs, commit_calls, push_calls,
             tool_log>>

inputVars == <<repo_exists, use_worktree, auto_push, fast_mode>>

\* the state of the components outside the code-implementation flow
componentVars == <<tool_call, web_search, validation, emission, cli, chat,
                   slugged, traced>>

\* everything outside CodeImplementationState and the observations of the run
sideVars == <<componentVars, impl_task>>

\* everything the code-implementation flow and its unit tests touch
flowVars == <<pc, arg, stateVars, obsVars, inputVars, routed, impl_task>>

----------------------------------------------------------------------------
(* Bounds *)

\* longest reviewer verdict, in words
MaxVerdictLen == 2

\* executions of commit_and_push followed in one run
MaxCommitRuns == 2

\* longest text submitted for validation, in characters
MaxQueryLen == 4

\* longest issue text a slug is built from, in characters
MaxIssueLen == 4

----------------------------------------------------------------------------
(* Values *)

\* Python None for the optional string fields
None == "None"

\* the text a review verdict is made of, word by word; <<>> stands for None
NoText == <<>>

\* branch names are character sequences; <<>> stands for None and "" (both
\* are "not state.branch_name")
NoBranch == <<>>

\* paths are sequences of components, each a character sequence; <<>> stands
\* for None
NoPath == <<>>

\* Path(state.repo_path).resolve(): the directory "r" inside the directory "p"
RepoParent == <<"p">>
RepoPath == <<RepoParent, <<"r">>>>

\* str.replace('/', '-')
ReplaceSlash(name) == [i \in 1..Len(name) |-> IF name[i] = "/" THEN "-" ELSE name[i]]

\* setup_branch line 114: repo_path.parent / f"worktree-{branch.replace('/', '-')}"
WorktreePath(branch) ==
    <<RepoParent, <<"w", "o", "r", "k", "t", "r", "e", "e", "-">> \o ReplaceSlash(branch)>>

Words == {"PASS", "pass", "NEEDS_CHANGES", "Bypassed", "LGTM"}

RECURSIVE TextsOfLen(_)
TextsOfLen(n) ==
    IF n = 0 THEN {<<>>}
    ELSE {Append(t, w) : t \in TextsOfLen(n - 1), w \in Words}

\* the verdict texts a reviewer may produce (non-empty)
VerdictTexts == UNION {TextsOfLen(n) : n \in 1..MaxVerdictLen}

\* str.lower(), word by word
LowerWord(w) ==
    CASE w = "PASS" -> "pass"
      [] w = "pass" -> "pass"
      [] w = "NEEDS_CHANGES" -> "needs_changes"
      [] w = "Bypassed" -> "bypassed"
      [] w = "LGTM" -> "lgtm"

lower(t) == [i \in 1..Len(t) |-> LowerWord(t[i])]

\* needle in word (both lower-case), as a substring
InWord(needle, w) ==
    CASE needle = "pass" -> w \in {"pass", "bypassed"}
      [] OTHER -> w = needle

\* needle in text (both lower-case): some word of the text contains it
Contains(t, needle) == \E i \in 1..Len(t) : InWord(needle, t[i])

Methods == {"setup_branch", "research_codebase", "implement_changes",
            "review_changes", "route_after_review", "commit_and_push"}

NeverRan == [m \in Methods |-> "none"]

----------------------------------------------------------------------------
(* The flow graph declared by the decorators *)

\* a listener registered on a label no router returns
ListensTo_LabelMismatch ==
    [research_codebase  |-> "setup_branch",
     implement_changes  |-> "research_codebase",
     review_changes     |-> "implement_changes",
     route_after_review |-> "review_changes",
     commit_and_push    |-> "commit"]

\* two methods registered on one event
ListensTo_TwoListeners ==
    [research_codebase  |-> "setup_branch",
     implement_changes  |-> "research_codebase",
     review_changes     |-> "implement_changes",
     route_after_review |-> "review_changes",
     commit_and_push    |-> "implement_changes"]

\* the event each method is registered on
ListensTo == [research_codebase  |-> "setup_branch",
              implement_changes  |-> "research_codebase",
              review_changes     |-> "implement_changes",
              route_after_review |-> "review_changes",
              commit_and_push    |-> "commit_and_push"]

\* the methods an event starts
Triggered(event) == {m \in DOMAIN ListensTo : ListensTo[m] = event}

\* the method the engine runs on an event ("done": nothing listens, kickoff returns)
Dispatch(event) ==
    IF Triggered(event) = {} THEN "done" ELSE CHOOSE m \in Triggered(event) : TRUE

----------------------------------------------------------------------------
(* Routers *)

\* a router that sends a passed review back into the loop
route_after_review_PassLoops(review_signal) ==
    IF review_signal = "passed" THEN "implement_changes"
    ELSE IF review_signal = "needs_changes" THEN "implement_changes"
    ELSE "commit_and_push"

\* a default that loops instead of committing
route_after_review_DefaultLoops(review_signal) ==
    IF review_signal = "passed" THEN "commit_and_push"
    ELSE "implement_changes"

route_after_review(review_signal) ==
    IF review_signal = "passed" THEN "commit_and_push"
    ELSE IF review_signal = "needs_changes" THEN "implement_changes"
    ELSE "commit_and_push"

\* the two modes exchanged
route_after_setup_Swapped(setup_result, fast) ==
    IF setup_result = "error" THEN "error"
    ELSE IF fast THEN "research_codebase"
    ELSE "implement_changes"

route_after_setup(setup_result, fast) ==
    IF setup_result = "error" THEN "error"
    ELSE IF fast THEN "implement_changes"
    ELSE "research_codebase"

\* the error signal not checked first
route_after_implementation_NoErrorCheck(impl_result, fast) ==
    IF fast THEN "commit_and_push"
    ELSE "review_changes"

route_after_implementation(impl_result, fast) ==
    IF impl_result = "error" THEN "error"
    ELSE IF fast THEN "commit_and_push"
    ELSE "review_changes"

----------------------------------------------------------------------------
(* Components called on their own *)

Components == {"tool_call", "web_search", "validate", "emit_event", "implement", "chat",
               "slugify", "traced_run"}

----------------------------------------------------------------------------
(* Initial state: CodeImplementationState defaults plus the kickoff inputs *)

BranchInputs == {NoBranch, <<"f", "/", "a", "/", "b">>}

\* the validator returns the value: no rule is violated
NoViolation == [valid |-> TRUE, tags |-> {}, min_chars_named |-> {}, min_entropy_named |-> {}]

\* no call of emit_validation_skipped_event yet
NotEmitted == [called |-> FALSE, configured |-> FALSE, get_client |-> "ok", create_event |-> "ok",
               client_requests |-> 0, events |-> <<>>, outcome |-> "none"]

\* the implement command has not been invoked
NotInvoked == [invoked |-> FALSE, issue |-> <<>>, force |-> FALSE, spec_min_chars |-> 0,
               spec_min_entropy |-> <<0, 1>>, started |-> 0, result |-> "none",
               warnings |-> <<>>, exit_code |-> 0]

\* no slug built yet
NotSlugged == [done |-> FALSE, issue |-> <<>>, slug |-> <<>>]

\* run_code_implementation has not been called
NotTraced == [called |-> FALSE, backend |-> "none", open |-> "ok", update |-> "ok",
              flush |-> "ok", kickoff |-> "none", flow_ran |-> FALSE,
              outcome |-> "none", result |-> "none"]

\* ChatState() before the flow ran
ChatStateInit == [context_path |-> "none", agent |-> "none", answer |-> None, error |-> None,
                  final_status |-> "pending", returned |-> "none", runs |-> 0,
                  agent_calls |-> 0]

Init ==
    /\ pc \in {"setup_branch", "unit_test"} \cup Components
    /\ arg = "none"
    /\ repo_exists \in BOOLEAN
    /\ use_worktree \in BOOLEAN
    /\ auto_push \in BOOLEAN
    /\ fast_mode \in BOOLEAN
    /\ branch_name \in BranchInputs
    /\ working_path = NoPath
    /\ research_findings = None
    /\ changes_made = None
    /\ commit_message = None
    /\ review_result = NoText
    /\ review_passed = FALSE
    /\ review_iterations = 0
    /\ pushed = FALSE
    /\ final_status = "pending"
    /\ error = None
    /\ returned = NeverRan
    /\ agent_log = <<>>
    /\ status_writes = 0
    /\ commit_runs = 0
    /\ commit_calls = 0
    /\ push_calls = 0
    /\ tool_log = [setup |-> "none", commit |-> "none", push |-> "none"]
    /\ routed = [router |-> "none", arg |-> "none", fast_mode |-> FALSE, result |-> "none"]
    /\ impl_task = [description |-> {}, llm |-> "none", fast_llm_calls |-> 0]
    /\ tool_call = [tool |-> "none", failure |-> "none", result |-> "none"]
    /\ web_search = [outcomes |-> <<>>, waits |-> <<>>, result |-> "none"]
    /\ validation = [validated |-> FALSE, user_query |-> <<>>, spec_min_chars |-> 0,
                     spec_min_entropy |-> <<0, 1>>, result |-> NoViolation]
    /\ emission = NotEmitted
    /\ cli = NotInvoked
    /\ chat = ChatStateInit
    /\ slugged = NotSlugged
    /\ traced = NotTraced

----------------------------------------------------------------------------
(* Helpers of the steps *)

\* what the collaborators hand back
ResearchTexts == {"research report"}
ChangeTexts == {"changes summary"}
Signals == {"success", "error", "passed", "needs_changes", "something_else"}

\* settings.git.branch_prefix (default "sheep/")
BranchPrefix == <<"s", "h", "e", "e", "p", "/">>

\* the characters of issue texts: an upper-case letter, a lower-case letter, a
\* digit, a blank, a hyphen
IssueChars == {"A", "b", "1", " ", "-"}

\* str.isalnum() of one character
isalnum(c) == c \in {"A", "a", "b", "1"}

\* str.lower() of one character
LowerChar(c) == IF c = "A" THEN "a" ELSE c

\* setup_branch line 106: issue_description[:50]
SlugSourceLen == 50

\* text[:n]
Take(text, n) == SubSeq(text, 1, IF Len(text) < n THEN Len(text) ELSE n)

\* line 107: "".join(c if c.isalnum() else "-" for c in slug)
Hyphenate(text) == [i \in 1..Len(text) |-> IF isalnum(text[i]) THEN text[i] ELSE "-"]

RECURSIVE JoinPieces(_, _, _)
\* line 108: "-".join(filter(None, slug.split("-"))), read left to right: acc is
\* the text joined so far, pending tells that a hyphen separates it from the
\* next piece
JoinPieces(text, acc, pending) ==
    IF text = <<>> THEN acc
    ELSE IF Head(text) = "-"
    THEN JoinPieces(Tail(text), acc, acc # <<>>)
    ELSE JoinPieces(Tail(text),
                    (IF pending THEN Append(acc, "-") ELSE acc) \o <<Head(text)>>,
                    FALSE)

\* a slug whose hyphens are neither collapsed nor stripped
Slug_NoCollapse(issue) ==
    Hyphenate([i \in 1..Len(Take(issue, SlugSourceLen)) |-> LowerChar(issue[i])])

\* setup_branch lines 106-108: the slug of an issue text
Slug(issue) ==
    JoinPieces(Hyphenate([i \in 1..Len(Take(issue, SlugSourceLen)) |-> LowerChar(issue[i])]),
               <<>>, FALSE)

\* the issue text of the run
IssueText == <<" ", "A", " ", "-", "1", "-">>

\* the slug of the issue text
IssueSlug == Slug(IssueText)

\* branch name generated from the issue text (prefix + slug)
GeneratedBranch == BranchPrefix \o IssueSlug

\* a guard that lets the error signal through
IsErrorSignal_Never(signal) == FALSE

\* the steps' guard on the signal they are handed
IsErrorSignal(signal) == signal = "error"

\* a failed review treated as a rejection
ReviewFailureSignal_NeedsChanges == "needs_changes"

\* review_changes line 358: the signal returned when the reviewer raised
ReviewFailureSignal == "passed"

\* a push that ignores the flag
ShouldPush_Always(auto) == TRUE

\* commit_and_push line 398: if state.auto_push
ShouldPush(auto) == auto

\* an empty commit treated as a failure
CommitAborts_NothingFatal(outcome) == outcome \in {"raises", "nothing_to_commit"}

\* GitCommitTool._run / commit_and_push: the commit outcomes that raise into the
\* step's except branch
CommitAborts(outcome) == outcome = "raises"

\* the commit message built from the issue text and the changes summary
CommitMsg(changes) ==
    IF changes # None THEN "feat: issue / Changes: summary"
    ELSE "feat: issue / Changes: Implementation completed"

\* review_changes line 287: the cap on review iterations
MaxReviewIterations == 3

\* a cap that is one too high
ReviewCapExceeded_OffByOne(n) == n > MaxReviewIterations + 1

ReviewCapExceeded(n) == n > MaxReviewIterations

\* an iteration counted twice
NextIteration_Twice(n) == n + 2

\* review_changes line 285: state.review_iterations += 1
NextIteration(n) == n + 1

\* a verdict test that compares the text as the reviewer wrote it
VerdictPassed_CaseSensitive(text) ==
    Contains(text, "pass") /\ ~Contains(text, "needs_changes")

\* review_changes lines 346-347: the verdict heuristic
VerdictPassed(text) ==
    LET result_lower == lower(text)
    IN  Contains(result_lower, "pass") /\ ~Contains(result_lower, "needs_changes")

\* f"{value}" of an optional text
Format(value) == IF value = None THEN "None" ELSE value

\* implement_changes lines 221-240: the parts of the Task description
TaskDescription(findings) ==
    {"Based on the research findings, implement the changes for:",
     "issue_description",
     "Research findings:", Format(findings),
     "Working directory:",
     "Guidelines",
     "After making changes, verify them with git status and git diff."}

\* implement_changes line 219: create_code_implementer_agent(verbose=...), no llm
\* argument, so the factory falls back to get_reasoning_llm()
ImplementerLlm == "default"

\* the engine after method m returned result: record it, emit event m
Emit(m, result) ==
    /\ returned' = [returned EXCEPT ![m] = result]
    /\ pc' = Dispatch(m)
    /\ arg' = result

\* state.error = msg; state.final_status = "error"
Fail(msg) ==
    /\ error' = msg
    /\ final_status' = "error"
    /\ status_writes' = status_writes + 1

----------------------------------------------------------------------------
(* Steps *)

setup_branch ==
    /\ pc = "setup_branch"
    /\ \E tool \in {"ok", "error_text", "raises"} :
         IF ~repo_exists
         THEN /\ Fail("Repository path does not exist")
              /\ UNCHANGED <<branch_name, working_path, tool_log>>
              /\ Emit("setup_branch", "error")
         ELSE /\ branch_name' = IF branch_name = NoBranch THEN GeneratedBranch ELSE branch_name
              /\ tool_log' = [tool_log EXCEPT !.setup = tool]
              /\ IF tool = "raises"
                 THEN /\ Fail("Failed to setup branch")
                      /\ UNCHANGED working_path
                      /\ Emit("setup_branch", "error")
                 ELSE \* the tool's text (success or "Git error: ...") is only logged
                      /\ working_path' = IF use_worktree THEN WorktreePath(branch_name')
                                                          ELSE RepoPath
                      /\ UNCHANGED <<error, final_status, status_writes>>
                      /\ Emit("setup_branch", "success")
    /\ UNCHANGED <<research_findings, changes_made, commit_message, review_result,
                   review_passed, review_iterations, pushed>>
    /\ UNCHANGED <<agent_log, commit_runs, commit_calls, push_calls, routed>>
    /\ UNCHANGED inputVars
    /\ UNCHANGED sideVars

research_codebase ==
    /\ pc = "research_codebase"
    /\ IF IsErrorSignal(arg)
       THEN /\ Emit("research_codebase", "error")
            /\ UNCHANGED <<research_findings, error, final_status, status_writes, agent_log>>
       ELSE /\ \/ \E text \in ResearchTexts :
                    /\ agent_log' = Append(agent_log, <<"researcher", "answered">>)
                    /\ research_findings' = text
                    /\ UNCHANGED <<error, final_status, status_writes>>
                    /\ Emit("research_codebase", "success")
               \/ /\ agent_log' = Append(agent_log, <<"researcher", "raised">>)
                  /\ Fail("Research failed")
                  /\ UNCHANGED research_findings
                  /\ Emit("research_codebase", "error")
    /\ UNCHANGED <<branch_name, working_path, changes_made, commit_message,
                   review_result, review_passed, review_iterations, pushed>>
    /\ UNCHANGED <<commit_runs, commit_calls, push_calls, tool_log, routed>>
    /\ UNCHANGED inputVars
    /\ UNCHANGED sideVars

implement_changes ==
    /\ pc = "implement_changes"
    /\ IF IsErrorSignal(arg)
       THEN /\ Emit("implement_changes", "error")
            /\ UNCHANGED <<changes_made, error, final_status, status_writes, agent_log>>
            /\ UNCHANGED impl_task
       ELSE /\ impl_task' = [description |-> TaskDescription(research_findings),
                             llm |-> ImplementerLlm,
                             fast_llm_calls |-> 0]
            /\ \/ \E text \in ChangeTexts :
                    /\ agent_log' = Append(agent_log, <<"implementer", "answered">>)
                    /\ changes_made' = text
                    /\ UNCHANGED <<error, final_status, status_writes>>
                    /\ Emit("implement_changes", "success")
               \/ /\ agent_log' = Append(agent_log, <<"implementer", "raised">>)
                  /\ Fail("Implementation failed")
                  /\ UNCHANGED changes_made
                  /\ Emit("implement_changes", "error")
    /\ UNCHANGED <<branch_name, working_path, research_findings, commit_message,
                   review_result, review_passed, review_iterations, pushed>>
    /\ UNCHANGED <<commit_runs, commit_calls, push_calls, tool_log, routed>>
    /\ UNCHANGED inputVars
    /\ UNCHANGED componentVars

review_changes ==
    /\ pc = "review_changes"
    /\ IF IsErrorSignal(arg)
       THEN /\ Emit("review_changes", "error")
            /\ UNCHANGED <<review_iterations, review_passed, review_result, error, agent_log>>
       ELSE /\ review_iterations' = NextIteration(review_iterations)
            /\ IF ReviewCapExceeded(review_iterations')
               THEN /\ review_passed' = TRUE
                    /\ UNCHANGED <<review_result, error, agent_log>>
                    /\ Emit("review_changes", "passed")
               ELSE \/ \E text \in VerdictTexts :
                         /\ review_result' = text
                         /\ UNCHANGED error
                         /\ IF VerdictPassed(text)
                            THEN /\ agent_log' = Append(agent_log, <<"reviewer", "passed">>)
                                 /\ review_passed' = TRUE
                                 /\ Emit("review_changes", "passed")
                            ELSE /\ agent_log' = Append(agent_log, <<"reviewer", "needs_changes">>)
                                 /\ UNCHANGED review_passed
                                 /\ Emit("review_changes", "needs_changes")
                    \/ \* the reviewer raised: recorded, not blocking
                       /\ agent_log' = Append(agent_log, <<"reviewer", "raised">>)
                       /\ error' = "Review failed"
                       /\ UNCHANGED <<review_result, review_passed>>
                       /\ Emit("review_changes", ReviewFailureSignal)
    /\ UNCHANGED <<branch_name, working_path, research_findings, changes_made,
                   commit_message, pushed, final_status, status_writes>>
    /\ UNCHANGED <<commit_runs, commit_calls, push_calls, tool_log, routed>>
    /\ UNCHANGED inputVars
    /\ UNCHANGED sideVars

\* a router that counts the review iterations itself
route_after_review_step_CountsIteration ==
    /\ pc = "route_after_review"
    /\ LET label == route_after_review(arg)
       IN  /\ returned' = [returned EXCEPT !["route_after_review"] = label]
           /\ pc' = Dispatch(label)
    /\ review_iterations' = NextIteration(review_iterations)
    /\ UNCHANGED arg
    /\ UNCHANGED <<branch_name, working_path, research_findings, changes_made,
                   commit_message, review_result, review_passed, pushed, final_status,
                   error>>
    /\ UNCHANGED <<agent_log, status_writes, commit_runs, commit_calls, push_calls,
                   tool_log, routed>>
    /\ UNCHANGED inputVars
    /\ UNCHANGED sideVars

\* the router runs on review_changes' result; the label it returns is emitted
\* as an event, and the methods registered on that label receive the result
\* the router was given
route_after_review_step ==
    /\ pc = "route_after_review"
    /\ LET label == route_after_review(arg)
       IN  /\ returned' = [returned EXCEPT !["route_after_review"] = label]
           /\ pc' = Dispatch(label)
    /\ UNCHANGED arg
    /\ UNCHANGED stateVars
    /\ UNCHANGED <<agent_log, status_writes, commit_runs, commit_calls, push_calls,
                   tool_log, routed>>
    /\ UNCHANGED inputVars
    /\ UNCHANGED sideVars

commit_and_push ==
    /\ pc = "commit_and_push"
    /\ commit_runs < MaxCommitRuns
    /\ commit_runs' = commit_runs + 1
    /\ commit_message' = CommitMsg(changes_made)
    /\ commit_calls' = commit_calls + 1
    /\ \E commit \in {"committed", "nothing_to_commit", "error_text", "raises"} :
         \* Path(None) raises inside the commit tool
         LET outcome == IF working_path = NoPath THEN "raises" ELSE commit
         IN  IF CommitAborts(outcome)
             THEN /\ tool_log' = [tool_log EXCEPT !.commit = outcome, !.push = "none"]
                  /\ Fail("Commit/push failed")
                  /\ UNCHANGED <<pushed, push_calls>>
                  /\ Emit("commit_and_push", "error")
             ELSE IF ShouldPush(auto_push)
             THEN /\ push_calls' = push_calls + 1
                  /\ \E push \in {"pushed", "error_text", "raises"} :
                       /\ tool_log' = [tool_log EXCEPT !.commit = outcome, !.push = push]
                       /\ IF push = "raises"
                          THEN /\ Fail("Commit/push failed")
                               /\ UNCHANGED pushed
                               /\ Emit("commit_and_push", "error")
                          ELSE /\ pushed' = TRUE
                               /\ final_status' = "completed"
                               /\ status_writes' = status_writes + 1
                               /\ UNCHANGED error
                               /\ Emit("commit_and_push", "success")
             ELSE /\ tool_log' = [tool_log EXCEPT !.commit = outcome, !.push = "none"]
                  /\ final_status' = "completed"
                  /\ status_writes' = status_writes + 1
                  /\ UNCHANGED <<error, pushed, push_calls>>
                  /\ Emit("commit_and_push", "success")
    /\ UNCHANGED <<branch_name, working_path, research_findings, changes_made,
                   review_result, review_passed, review_iterations>>
    /\ UNCHANGED <<agent_log, routed>>
    /\ UNCHANGED inputVars
    /\ UNCHANGED sideVars

\* flow.kickoff returns and run_code_implementation hands flow.state to the
\* caller.  commit_and_push is registered on the label that is also its own
\* name, so its completion is an event it listens to; whether the engine starts
\* it again is decided outside this repository, and both outcomes are kept:
\* commit_and_push above may run again, or the run ends here.
kickoff_returns ==
    /\ pc = "commit_and_push"
    /\ commit_runs >= 1
    /\ pc' = "done"
    /\ UNCHANGED arg
    /\ UNCHANGED stateVars
    /\ UNCHANGED obsVars
    /\ UNCHANGED routed
    /\ UNCHANGED inputVars
    /\ UNCHANGED sideVars

----------------------------------------------------------------------------
(* Direct router calls on a flow object that is not running (unit tests) *)

call_route_after_setup ==
    /\ pc = "unit_test"
    /\ \E sig \in Signals, fast \in BOOLEAN :
         routed' = [router |-> "route_after_setup", arg |-> sig, fast_mode |-> fast,
                    result |-> route_after_setup(sig, fast)]
    /\ UNCHANGED <<pc, arg>>
    /\ UNCHANGED stateVars
    /\ UNCHANGED obsVars
    /\ UNCHANGED inputVars
    /\ UNCHANGED sideVars

call_route_after_implementation ==
    /\ pc = "unit_test"
    /\ \E sig \in Signals, fast \in BOOLEAN :
         routed' = [router |-> "route_after_implementation", arg |-> sig, fast_mode |-> fast,
                    result |-> route_after_implementation(sig, fast)]
    /\ UNCHANGED <<pc, arg>>
    /\ UNCHANGED stateVars
    /\ UNCHANGED obsVars
    /\ UNCHANGED inputVars
    /\ UNCHANGED sideVars

call_route_after_review ==
    /\ pc = "unit_test"
    /\ \E sig \in Signals, fast \in BOOLEAN :
         routed' = [router |-> "route_after_review", arg |-> sig, fast_mode |-> fast,
                    result |-> route_after_review(sig)]
    /\ UNCHANGED <<pc, arg>>
    /\ UNCHANGED stateVars
    /\ UNCHANGED obsVars
    /\ UNCHANGED inputVars
    /\ UNCHANGED sideVars

----------------------------------------------------------------------------
(* Tool facades (src/src/sheep/tools): one direct call of a tool's _run *)

GitTools == {"GitStatusTool", "GitDiffTool", "GitLogTool", "GitCreateBranchTool",
             "GitCheckoutTool", "GitCommitTool", "GitPushTool", "GitWorktreeTool"}

FileTools == {"FileReadTool", "FileWriteTool", "FileSearchTool", "DirectoryTreeTool"}

WebTools == {"WebFetchTool", "WebSearchTool", "ShellCommandTool"}

Tools == GitTools \cup FileTools \cup WebTools

\* what can go wrong in the action a tool wraps
Failures == {"missing_path", "nonzero_exit", "binary_missing", "io_error",
             "permission_denied", "network_error", "timeout"}

\* the failures the wrapped action of a tool can meet ("none": it succeeds)
Applicable(tool) ==
    {"none"} \cup
    CASE tool = "GitPushTool" ->
            {"missing_path", "nonzero_exit", "binary_missing", "io_error", "network_error"}
      [] tool \in GitTools \ {"GitPushTool"} ->
            \* _run_git sets no timeout; fetch runs with check=False
            {"missing_path", "nonzero_exit", "binary_missing", "io_error"}
      [] tool \in {"FileReadTool", "FileWriteTool"} ->
            {"missing_path", "io_error", "permission_denied"}
      [] tool = "FileSearchTool" ->
            {"missing_path", "nonzero_exit", "binary_missing", "io_error", "timeout"}
      [] tool = "DirectoryTreeTool" ->
            {"missing_path", "io_error", "permission_denied"}
      [] tool = "WebFetchTool" ->
            {"nonzero_exit", "network_error", "timeout"}
      [] tool = "WebSearchTool" ->
            {"binary_missing", "network_error", "timeout"}
      [] tool = "ShellCommandTool" ->
            {"missing_path", "nonzero_exit", "io_error", "timeout"}

\* git tools: the path check and `except subprocess.CalledProcessError` are the
\* only handlers; any other exception of subprocess.run leaves _run
GitOutcome(failure) ==
    CASE failure = "none" -> "text"
      [] failure = "missing_path" -> "error_text"
      [] failure \in {"nonzero_exit", "network_error"} -> "error_text"
      [] failure \in {"binary_missing", "io_error"} -> "raised"

\* DirectoryTreeTool: the path check, and `except PermissionError` around
\* iterdir; any other OSError of the walk leaves _run
DirectoryTreeOutcome(failure) ==
    CASE failure = "none" -> "text"
      [] failure = "missing_path" -> "error_text"
      [] failure = "permission_denied" -> "text"
      [] failure = "io_error" -> "raised"

\* the tools whose _run ends in `except Exception`: every failure becomes text;
\* a non-zero exit of rg or of a shell command is reported in the ordinary text
CatchAllOutcome(tool, failure) ==
    CASE failure = "none" -> "text"
      [] failure = "nonzero_exit" /\ tool \in {"FileSearchTool", "ShellCommandTool"} -> "text"
      [] OTHER -> "error_text"

\* how tool._run ends for a failure of the wrapped action
ToolOutcome(tool, failure) ==
    CASE tool \in GitTools -> GitOutcome(failure)
      [] tool = "DirectoryTreeTool" -> DirectoryTreeOutcome(failure)
      [] OTHER -> CatchAllOutcome(tool, failure)

call_tool ==
    /\ pc = "tool_call"
    /\ \E tool \in Tools :
         \E failure \in Applicable(tool) :
            tool_call' = [tool |-> tool, failure |-> failure,
                          result |-> ToolOutcome(tool, failure)]
    /\ UNCHANGED flowVars
    /\ UNCHANGED <<web_search, validation, emission, cli, chat, slugged, traced>>

----------------------------------------------------------------------------
(* WebSearchTool._run: the retry loop, one action per search attempt *)

\* web_tools.py line 84
max_retries == 3

\* web_tools.py line 114: seconds of backoff per attempt
BackoffStep == 3

\* a backoff that does not grow
WaitTime_Constant(attempt) == BackoffStep

\* line 114: wait_time = (attempt + 1) * 3, attempt counted from 0
WaitTime(attempt) == (attempt + 1) * BackoffStep

\* line 112: if attempt < max_retries - 1
MayRetry(attempt) == attempt < max_retries - 1

\* how one ddgs.text attempt can end
SearchOutcomes == {"results", "empty", "rate_limited", "other_error"}

web_search_attempt ==
    /\ pc = "web_search"
    /\ web_search.result = "none"
    /\ LET attempt == Len(web_search.outcomes)       \* the loop variable
       IN  /\ attempt < max_retries
           /\ \E outcome \in SearchOutcomes :
                LET tried == Append(web_search.outcomes, outcome)
                IN  CASE outcome = "results" ->
                            web_search' = [web_search EXCEPT !.outcomes = tried,
                                                             !.result = "results"]
                      [] outcome = "empty" ->
                            \* no exception, nothing found: the loop goes on at once;
                            \* after the last attempt the no-results text is returned
                            web_search' = [web_search EXCEPT
                                !.outcomes = tried,
                                !.result = IF attempt + 1 < max_retries THEN "none"
                                                                        ELSE "no_results"]
                      [] outcome = "rate_limited" ->
                            IF MayRetry(attempt)
                            THEN web_search' = [web_search EXCEPT
                                    !.outcomes = tried,
                                    !.waits = Append(@, WaitTime(attempt))]
                            ELSE web_search' = [web_search EXCEPT
                                    !.outcomes = tried,
                                    !.result = "rate_limited"]
                      [] outcome = "other_error" ->
                            \* re-raised, caught by the outer except Exception
                            web_search' = [web_search EXCEPT !.outcomes = tried,
                                                             !.result = "error_text"]
    /\ UNCHANGED flowVars
    /\ UNCHANGED <<tool_call, validation, emission, cli, chat, slugged, traced>>

----------------------------------------------------------------------------
(* Spec intake validation (src/src/sheep/models/spec.py) *)

\* the characters of the submitted texts
Alphabet == {"a", "b", "c"}

RECURSIVE QueriesOfLen(_)
QueriesOfLen(n) ==
    IF n = 0 THEN {<<>>}
    ELSE {Append(t, ch) : t \in QueriesOfLen(n - 1), ch \in Alphabet}

\* the texts submitted as user_query
Queries == UNION {QueriesOfLen(n) : n \in 0..MaxQueryLen}

\* Settings.spec_min_chars and Settings.spec_min_entropy: the defaults (20 and
\* 2.5, a threshold being numerator and denominator) and an overriding value
\* from the environment for each
DefaultSpecMinChars == 20
DefaultSpecMinEntropy == <<5, 2>>
MinCharsChoices == {DefaultSpecMinChars, 3}
MinEntropyChoices == {DefaultSpecMinEntropy, <<1, 1>>}

RECURSIVE Pow(_, _)
Pow(b, e) == IF e = 0 THEN 1 ELSE b * Pow(b, e - 1)

\* collections.Counter(text)
Counter(text) ==
    [ch \in {text[i] : i \in DOMAIN text} |->
        Cardinality({i \in DOMAIN text : text[i] = ch})]

RECURSIVE PowerProduct(_, _, _)
\* the product of c^(c*d) over the counts c of the characters in chars
PowerProduct(counts, chars, d) ==
    IF chars = {} THEN 1
    ELSE LET ch == CHOOSE x \in chars : TRUE
         IN  Pow(counts[ch], counts[ch] * d) * PowerProduct(counts, chars \ {ch}, d)

\* compute_shannon_entropy(text) < n/d, decided exactly:
\*   H = sum (c/total) * log2(total/c) < n/d
\*   <=>  total^(total*d) / prod c^(c*d) < 2^(n*total)
EntropyBelow(text, threshold) ==
    LET n == threshold[1]
        d == threshold[2]
        total == Len(text)
        counts == Counter(text)
    IN  IF text = <<>> THEN 0 < n
        ELSE (Pow(total, total * d) \div PowerProduct(counts, DOMAIN counts, d))
                < Pow(2, n * total)

\* a length check that also rejects the threshold length itself
validate_user_query_LengthInclusive(value, min_chars, min_entropy) ==
    IF Len(value) <= min_chars
    THEN [valid |-> FALSE, tags |-> {"input_too_short"},
          min_chars_named |-> {min_chars}, min_entropy_named |-> {}]
    ELSE IF EntropyBelow(value, min_entropy)
    THEN [valid |-> FALSE, tags |-> {"input_low_entropy"},
          min_chars_named |-> {}, min_entropy_named |-> {min_entropy}]
    ELSE NoViolation

\* SpecInput.validate_user_query: the first violated rule raises ValueError with
\* its tag and a message naming the threshold
validate_user_query(value, min_chars, min_entropy) ==
    IF Len(value) < min_chars
    THEN [valid |-> FALSE, tags |-> {"input_too_short"},
          min_chars_named |-> {min_chars}, min_entropy_named |-> {}]
    ELSE IF EntropyBelow(value, min_entropy)
    THEN [valid |-> FALSE, tags |-> {"input_low_entropy"},
          min_chars_named |-> {}, min_entropy_named |-> {min_entropy}]
    ELSE NoViolation

\* one construction SpecInput(user_query=value) under the configured thresholds
call_validate ==
    /\ pc = "validate"
    /\ ~validation.validated
    /\ \E value \in Queries, min_chars \in MinCharsChoices, min_entropy \in MinEntropyChoices :
         validation' = [validated |-> TRUE,
                        user_query |-> value,
                        spec_min_chars |-> min_chars,
                        spec_min_entropy |-> min_entropy,
                        result |-> validate_user_query(value, min_chars, min_entropy)]
    /\ UNCHANGED flowVars
    /\ UNCHANGED <<tool_call, web_search, emission, cli, chat, slugged, traced>>

----------------------------------------------------------------------------
(* Validation-skipped observability event
   (emit_validation_skipped_event of sheep.observability.langfuse_client) *)

\* what a call of the backend does
BackendOutcomes == {"ok", "raises"}

\* lengths of the text whose validation was skipped
InputLengths == {2, 5}

\* the event handed to create_event
SkippedEvent(input_length) ==
    [name |-> "validation_skipped", rule_skipped |-> "all", input_length |-> input_length]

\* a failure of the backend leaves the function as an exception
EmitOutcome_Propagates(configured, get_client, create_event, input_length) ==
    IF ~configured
    THEN [client_requests |-> 0, events |-> <<>>, outcome |-> "returned"]
    ELSE IF get_client = "raises"
    THEN [client_requests |-> 1, events |-> <<>>, outcome |-> "raised"]
    ELSE IF create_event = "raises"
    THEN [client_requests |-> 1, events |-> <<>>, outcome |-> "raised"]
    ELSE [client_requests |-> 1, events |-> <<SkippedEvent(input_length)>>,
          outcome |-> "returned"]

\* emit_validation_skipped_event(input_length): nothing is done when Langfuse
\* is not configured; otherwise the client is requested and one event created,
\* and any exception on the way is swallowed
EmitOutcome(configured, get_client, create_event, input_length) ==
    IF ~configured
    THEN [client_requests |-> 0, events |-> <<>>, outcome |-> "returned"]
    ELSE IF get_client = "raises"
    THEN [client_requests |-> 1, events |-> <<>>, outcome |-> "returned"]
    ELSE IF create_event = "raises"
    THEN [client_requests |-> 1, events |-> <<>>, outcome |-> "returned"]
    ELSE [client_requests |-> 1, events |-> <<SkippedEvent(input_length)>>,
          outcome |-> "returned"]

emit_validation_skipped_event ==
    /\ pc = "emit_event"
    /\ ~emission.called
    /\ \E configured \in BOOLEAN, get_client \in BackendOutcomes,
          create_event \in BackendOutcomes, input_length \in InputLengths :
         LET out == EmitOutcome(configured, get_client, create_event, input_length)
         IN  emission' = [called |-> TRUE, configured |-> configured,
                          get_client |-> get_client, create_event |-> create_event,
                          client_requests |-> out.client_requests,
                          events |-> out.events, outcome |-> out.outcome]
    /\ UNCHANGED flowVars
    /\ UNCHANGED <<tool_call, web_search, validation, cli, chat, slugged, traced>>

----------------------------------------------------------------------------
(* The implement command (src/src/sheep/cli.py) *)

\* issue texts given with --issue
CliIssues == {<<"a", "b">>, <<"a", "a", "a">>, <<"a", "b", "c">>}

\* final_status of the state run_code_implementation returns
FlowResults == {"completed", "error"}

\* exit code of a usage error: the command line carries an option the command
\* does not declare (it declares repo_path, --issue, --branch, --worktree,
\* --no-push and --verbose; --force / --skip-validation is none of them)
UsageError == 2

\* the text would be rejected by SpecInput under the configured thresholds
WouldBeRejected(issue, min_chars, min_entropy) ==
    ~validate_user_query(issue, min_chars, min_entropy).valid

\* typer.Exit(1) unless the result is completed
ExitCode(status) == IF status = "completed" THEN 0 ELSE 1

implement ==
    /\ pc = "implement"
    /\ ~cli.invoked
    /\ \E issue \in CliIssues, force \in BOOLEAN, min_chars \in MinCharsChoices,
          min_entropy \in MinEntropyChoices, flow_result \in FlowResults :
         IF force
         THEN \* the option parser refuses the command line
              cli' = [invoked |-> TRUE, issue |-> issue, force |-> force,
                      spec_min_chars |-> min_chars, spec_min_entropy |-> min_entropy,
                      started |-> 0, result |-> "none", warnings |-> <<>>,
                      exit_code |-> UsageError]
         ELSE \* run_code_implementation(...), then the summary or Exit(1)
              cli' = [invoked |-> TRUE, issue |-> issue, force |-> force,
                      spec_min_chars |-> min_chars, spec_min_entropy |-> min_entropy,
                      started |-> 1, result |-> flow_result, warnings |-> <<>>,
                      exit_code |-> ExitCode(flow_result)]
    /\ UNCHANGED flowVars
    /\ UNCHANGED <<tool_call, web_search, validation, emission, chat, slugged, traced>>

----------------------------------------------------------------------------
(* The slug of setup_branch, built from an issue text on its own *)

RECURSIVE IssuesOfLen(_)
IssuesOfLen(n) ==
    IF n = 0 THEN {<<>>}
    ELSE {Append(t, c) : t \in IssuesOfLen(n - 1), c \in IssueChars}

\* the issue texts
Issues == UNION {IssuesOfLen(n) : n \in 0..MaxIssueLen}

slugify_issue ==
    /\ pc = "slugify"
    /\ ~slugged.done
    /\ \E issue \in Issues :
         slugged' = [done |-> TRUE, issue |-> issue, slug |-> Slug(issue)]
    /\ UNCHANGED flowVars
    /\ UNCHANGED <<tool_call, web_search, validation, emission, cli, chat, traced>>

----------------------------------------------------------------------------
(* run_code_implementation under trace_flow
   (src/src/sheep/observability/langfuse_client.py) *)

\* get_langfuse(): None when no backend was configured, else the client
Backends == {"none", "present"}

\* how flow.kickoff ends: the final_status of the state, or an exception
KickoffOutcomes == FlowResults \cup {"raises"}

\* run_code_implementation: `with trace_flow(...): flow.kickoff(...)`, then
\* `return flow.state`.  Without a client the wrapper yields None.  With one,
\* the span is opened before the body; an exception of the body updates the
\* span and is raised again; the client is flushed in `finally`.  No call of
\* the client is guarded.
TracedRun(backend, open, update, flush, kickoff) ==
    IF backend = "none"
    THEN [flow_ran |-> TRUE,
          outcome |-> IF kickoff = "raises" THEN "raised" ELSE "returned",
          result |-> IF kickoff = "raises" THEN "none" ELSE kickoff]
    ELSE IF open = "raises"
    THEN [flow_ran |-> FALSE, outcome |-> "raised", result |-> "none"]
    ELSE IF kickoff = "raises"
    THEN [flow_ran |-> TRUE, outcome |-> "raised", result |-> "none"]
    ELSE IF flush = "raises"
    THEN [flow_ran |-> TRUE, outcome |-> "raised", result |-> "none"]
    ELSE [flow_ran |-> TRUE, outcome |-> "returned", result |-> kickoff]

run_code_implementation ==
    /\ pc = "traced_run"
    /\ ~traced.called
    /\ \E backend \in Backends, open \in BackendOutcomes, update \in BackendOutcomes,
          flush \in BackendOutcomes, kickoff \in KickoffOutcomes :
         LET run == TracedRun(backend, open, update, flush, kickoff)
         IN  traced' = [called |-> TRUE, backend |-> backend, open |-> open,
                        update |-> update, flush |-> flush, kickoff |-> kickoff,
                        flow_ran |-> run.flow_ran, outcome |-> run.outcome,
                        result |-> run.result]
    /\ UNCHANGED flowVars
    /\ UNCHANGED <<tool_call, web_search, validation, emission, cli, chat, slugged>>

----------------------------------------------------------------------------
(* The chat flow (src/src/sheep/flows/chat.py) *)

\* context_path: not given, a path that does not exist, a path that exists
ContextPaths == {"none", "missing", "existing"}

\* crew.kickoff(): an answer or an exception
ChatAgentOutcomes == {"answer", "raises"}

\* the methods of ChatFlow that listen to an event: answer_question is the
\* start method and nothing listens to it or to its return value
ChatListeners(event) == {}

\* a missing context path that is recorded without ending the run
AnswerQuestion_ErrorWithoutStatus(context_path, agent) ==
    IF context_path = "missing"
    THEN [answer |-> None, error |-> "Context path does not exist",
          final_status |-> "pending", returned |-> "error", agent_calls |-> 0]
    ELSE IF agent = "raises"
    THEN [answer |-> None, error |-> "Failed to answer question", final_status |-> "error",
          returned |-> "error", agent_calls |-> 1]
    ELSE [answer |-> "answer", error |-> None, final_status |-> "completed",
          returned |-> "success", agent_calls |-> 1]

\* answer_question without the check of the context path
AnswerQuestion_NoPathCheck(context_path, agent) ==
    IF agent = "raises"
    THEN [answer |-> None, error |-> "Failed to answer question", final_status |-> "error",
          returned |-> "error", agent_calls |-> 1]
    ELSE [answer |-> "answer", error |-> None, final_status |-> "completed",
          returned |-> "success", agent_calls |-> 1]

\* ChatFlow.answer_question: the state it leaves and the value it returns
AnswerQuestion(context_path, agent) ==
    IF context_path = "missing"
    THEN [answer |-> None, error |-> "Context path does not exist", final_status |-> "error",
          returned |-> "error", agent_calls |-> 0]
    ELSE IF agent = "raises"
    THEN [answer |-> None, error |-> "Failed to answer question", final_status |-> "error",
          returned |-> "error", agent_calls |-> 1]
    ELSE [answer |-> "answer", error |-> None, final_status |-> "completed",
          returned |-> "success", agent_calls |-> 1]

\* flow.kickoff(inputs): the start method runs; every method listening to its
\* name or to its return value would run after it
answer_question ==
    /\ pc = "chat"
    /\ \/ chat.runs = 0
       \/ "answer_question" \in ChatListeners("answer_question") \cup ChatListeners(chat.returned)
    /\ \E context_path \in ContextPaths, agent \in ChatAgentOutcomes :
         LET out == AnswerQuestion(context_path, agent)
         IN  chat' = [context_path |-> context_path, agent |-> agent,
                      answer |-> out.answer, error |-> out.error,
                      final_status |-> out.final_status, returned |-> out.returned,
                      runs |-> chat.runs + 1,
                      agent_calls |-> chat.agent_calls + out.agent_calls]
    /\ UNCHANGED flowVars
    /\ UNCHANGED <<tool_call, web_search, validation, emission, cli, slugged, traced>>

----------------------------------------------------------------------------
(* Specifications *)

FlowNext ==
    \/ setup_branch
    \/ research_codebase
    \/ implement_changes
    \/ review_changes
    \/ route_after_review_step
    \/ commit_and_push
    \/ kickoff_returns

Next ==
    \/ setup_branch
    \/ research_codebase
    \/ implement_changes
    \/ review_changes
    \/ route_after_review_step
    \/ commit_and_push
    \/ kickoff_returns
    \/ call_route_after_setup
    \/ call_route_after_implementation
    \/ call_route_after_review
    \/ call_tool
    \/ web_search_attempt
    \/ call_validate
    \/ emit_validation_skipped_event
    \/ implement
    \/ answer_question
    \/ slugify_issue
    \/ run_code_implementation

Spec == Init /\ [][Next]_vars

\* every step the engine starts returns (agents and tools are time-boxed), and
\* the engine starts every triggered method
FairSpec == Spec /\ WF_vars(FlowNext)

----------------------------------------------------------------------------
(* Observations used by the properties *)

Terminal == {"completed", "error"}

AgentCalls(agent) == SelectSeq(agent_log, LAMBDA e : e[1] = agent)

ReviewerCalls == Len(AgentCalls("reviewer"))

\* setup_branch, research_codebase or implement_changes returned the error signal
UpstreamError ==
    \/ returned["setup_branch"] = "error"
    \/ returned["research_codebase"] = "error"
    \/ returned["implement_changes"] = "error"

UpstreamSuccess ==
    /\ returned["setup_branch"] = "success"
    /\ returned["research_codebase"] = "success"
    /\ returned["implement_changes"] = "success"

\* the reviewer answered needs_changes k times and then PASS
NeedsThenPass(k) ==
    [i \in 1..(k + 1) |-> IF i <= k THEN <<"reviewer", "needs_changes">>
                                   ELSE <<"reviewer", "passed">>]

\* review_changes runs its body (it is not short-circuited by the error signal)
ReviewBodyRuns == pc = "review_changes" /\ arg # "error" /\ pc' = "route_after_review"

----------------------------------------------------------------------------
(* Properties *)

\* C1: in every reachable state, error non-null implies final_status = error.
C1_ErrorImpliesStatusError == error # None => final_status = "error"

\* C2: when setup_branch, research_codebase or implement_changes returned the
\* error signal, commit_and_push never executes (no commit call, no push call),
\* pushed stays false and final_status stays error.
C2_CommitSkippedOnUpstreamError ==
    UpstreamError =>
        /\ commit_runs = 0
        /\ commit_calls = 0
        /\ push_calls = 0
        /\ ~pushed
        /\ final_status = "error"

\* C3: final_status is pending until it is assigned, it is assigned at most
\* once in a run, and a run that has ended has left pending.
C3_FinalStatusSetExactlyOnce ==
    /\ (status_writes = 0 => final_status = "pending")
    /\ status_writes <= 1
    /\ (pc = "done" => final_status \in Terminal /\ status_writes = 1)

\* C4: once setup, research and implementation have succeeded, the run
\* eventually executes commit_and_push and reaches a terminal final_status,
\* whatever the reviewer answers, and never re-enters the review loop.
C4_ReviewLoopTerminates ==
    /\ UpstreamSuccess ~> (commit_runs >= 1 /\ final_status \in Terminal)
    /\ UpstreamSuccess ~> [](pc \in {"commit_and_push", "done"})

C4_ForcedAcceptanceCommitted ==
    /\ review_iterations = MaxReviewIterations + 1
    /\ ReviewerCalls = MaxReviewIterations
    /\ returned["commit_and_push"] = "success"
    /\ final_status = "completed"

\* C5: every execution of review_changes past its error guard adds exactly 1 to
\* review_iterations; if the new value exceeds 3 the step sets review_passed,
\* returns passed and does not invoke the reviewer, otherwise it invokes the
\* reviewer once; the reviewer is invoked at most 3 times per run.
C5_ReviewCounterAndCap ==
    /\ [][ReviewBodyRuns =>
            /\ review_iterations' = review_iterations + 1
            /\ IF review_iterations' > 3
               THEN /\ review_passed'
                    /\ arg' = "passed"
                    /\ agent_log' = agent_log
               ELSE /\ Len(agent_log') = Len(agent_log) + 1
                    /\ agent_log'[Len(agent_log')][1] = "reviewer"]_vars
    /\ [](ReviewerCalls <= 3)

C5_ForcedPassWithoutReviewer ==
    /\ pc = "route_after_review"
    /\ arg = "passed"
    /\ review_iterations = 4
    /\ ReviewerCalls = 3
    /\ review_passed

\* C6: review_iterations stays within 0..4; after a review it is 1, 2, 3 or 4.
C6_ReviewIterationsRange ==
    /\ review_iterations \in 0..4
    /\ (returned["review_changes"] \in {"passed", "needs_changes"}
            => review_iterations \in 1..4)

C6_FourthIteration ==
    /\ review_iterations = 4
    /\ returned["review_changes"] = "passed"
    /\ pc = "commit_and_push"

\* C7: a needs_changes review leads back to implement_changes, so between two
\* consecutive reviewer invocations there is exactly one implementer invocation
\* (no two reviewer invocations follow each other directly).
C7_ImplementerBetweenReviews ==
    /\ (returned["route_after_review"] = "implement_changes" /\ pc # "route_after_review"
            => pc = "implement_changes")
    /\ \A i \in 1..Len(agent_log) :
         (i > 1 /\ agent_log[i][1] = "reviewer") => agent_log[i - 1][1] = "implementer"

\* C8: when setup, research and implementation succeeded and the reviewer
\* answered needs_changes k times (k in 0..2) and then PASS, the run reaches
\* commit_and_push with review_iterations = k+1 and review_passed, and
\* final_status is completed when the commit step did not raise.
C8_NeedsChangesThenPass ==
    \A k \in 0..2 :
        (UpstreamSuccess /\ AgentCalls("reviewer") = NeedsThenPass(k) /\ commit_runs >= 1)
            => /\ review_iterations = k + 1
               /\ review_passed
               /\ (returned["commit_and_push"] = "success" => final_status = "completed")

C8_TwoIterationsCompleted ==
    /\ UpstreamSuccess
    /\ AgentCalls("reviewer") = NeedsThenPass(1)
    /\ pc = "done"
    /\ review_iterations = 2
    /\ final_status = "completed"

C11_RouteAfterReview ==
    /\ [](routed.router = "route_after_review" =>
            /\ (routed.arg = "passed" => routed.result = "commit_and_push")
            /\ (routed.arg = "needs_changes" => routed.result = "implement_changes")
            /\ (routed.arg \notin {"passed", "needs_changes"}
                    => routed.result = "commit_and_push"))
    /\ [][pc = "route_after_review" /\ pc' # pc =>
            /\ (arg = "passed" => returned'["route_after_review"] = "commit_and_push")
            /\ (arg = "needs_changes"
                    => returned'["route_after_review"] = "implement_changes")
            /\ (arg \notin {"passed", "needs_changes"}
                    => returned'["route_after_review"] = "commit_and_push")
            /\ UNCHANGED stateVars]_vars

C11_UnrecognizedRoutedToCommit ==
    /\ routed.router = "route_after_review"
    /\ routed.arg = "something_else"
    /\ routed.result = "commit_and_push"

\* C12: in a run with fast_mode = true the researcher and the reviewer are never
\* invoked, research_findings stays null, review_iterations stays 0, and no
\* step other than setup_branch, implement_changes and commit_and_push executes.
C12_FastModeSkipsResearchAndReview ==
    (fast_mode /\ pc # "unit_test") =>
        /\ AgentCalls("researcher") = <<>>
        /\ AgentCalls("reviewer") = <<>>
        /\ research_findings = None
        /\ review_iterations = 0
        /\ \A m \in Methods \ {"setup_branch", "implement_changes", "commit_and_push"} :
              returned[m] = "none"

\* C13: terminal states are absorbing: once final_status is completed or error,
\* no step does any work afterwards (no agent is invoked, commit_and_push does
\* not run) and no field of the workflow state changes.
C13_TerminalAbsorbing ==
    [][(final_status \in Terminal) =>
            /\ UNCHANGED stateVars
            /\ UNCHANGED <<agent_log, commit_runs>>]_vars

\* C14: when the researcher or implementer invocation raises, the step records
\* error and final_status = error and returns error; after that no agent is
\* invoked in the run and review_iterations is not incremented.
C14_StepFailureShortCircuits ==
    /\ [][(agent_log' # agent_log /\ agent_log'[Len(agent_log')][2] = "raised"
                /\ agent_log'[Len(agent_log')][1] \in {"researcher", "implementer"}) =>
            /\ error' \in {"Research failed", "Implementation failed"}
            /\ final_status' = "error"
            /\ arg' = "error"
            /\ returned'[pc] = "error"]_vars
    /\ [](\A i \in 1..Len(agent_log) :
            (agent_log[i][2] = "raised" /\ agent_log[i][1] \in {"researcher", "implementer"})
                => /\ i = Len(agent_log)
                   /\ review_iterations = 0)

C14_ImplementerRaisedRunEnded ==
    /\ pc = "done"
    /\ agent_log = <<<<"researcher", "answered">>, <<"implementer", "raised">>>>
    /\ review_iterations = 0
    /\ returned["review_changes"] = "error"

\* the last agent invocation of the run so far is a reviewer invocation that raised
ReviewerRaisedLast ==
    /\ agent_log # <<>>
    /\ agent_log[Len(agent_log)] = <<"reviewer", "raised">>

\* C15: when the reviewer invocation raises (review_iterations at most 3),
\* review_changes records the error message in error and returns passed; the
\* run then goes to commit_and_push: it neither loops back to an agent nor stops
\* before commit_and_push has run.
C15_ReviewFailOpen ==
    /\ [][(agent_log' # agent_log /\ ReviewerRaisedLast') =>
            /\ review_iterations' <= 3
            /\ error' = "Review failed"
            /\ arg' = "passed"
            /\ returned'["review_changes"] = "passed"
            /\ pc' = "route_after_review"]_vars
    /\ [](\A i \in 1..Len(agent_log) :
            agent_log[i] = <<"reviewer", "raised">> => i = Len(agent_log))
    /\ [](ReviewerRaisedLast =>
            /\ pc \in {"route_after_review", "commit_and_push", "done"}
            /\ (pc # "route_after_review"
                    => returned["route_after_review"] = "commit_and_push")
            /\ (pc = "commit_and_push" /\ commit_runs = 0 => ENABLED commit_and_push)
            /\ (pc = "done" => commit_runs >= 1))

C15_ReviewerRaisedThenCommitted ==
    /\ ReviewerRaisedLast
    /\ pc = "done"
    /\ error = "Review failed"
    /\ returned["commit_and_push"] = "success"
    /\ ~review_passed

\* C16: right after setup_branch, if the repository path does not exist or the
\* branch/worktree tool failed (raised, or reported the failure in its result),
\* error is set, final_status is error and the step returned error; it returned
\* success only when the tool set the branch or worktree up.
C16_SetupReportsEveryFailure ==
    pc = "research_codebase" =>
        IF ~repo_exists \/ tool_log.setup # "ok"
        THEN /\ arg = "error"
             /\ returned["setup_branch"] = "error"
             /\ error # None
             /\ final_status = "error"
        ELSE /\ arg = "success"
             /\ returned["setup_branch"] = "success"

\* C17: working_path is non-null whenever research_codebase, implement_changes
\* or review_changes runs past its error guard and whenever commit_and_push
\* runs; its value is the repository path when use_worktree is false, otherwise
\* the sibling of the repository named worktree-<branch>, the branch name with
\* every '/' replaced by '-'.
C17_WorkingPathSet ==
    /\ (pc \in {"research_codebase", "implement_changes", "review_changes"} /\ arg # "error"
            => working_path # NoPath)
    /\ (pc = "commit_and_push" => working_path # NoPath)
    /\ (working_path # NoPath /\ ~use_worktree => working_path = <<<<"p">>, <<"r">>>>)
    /\ (working_path # NoPath /\ use_worktree =>
            /\ Len(working_path) = 2
            /\ working_path[1] = <<"p">>
            /\ Len(working_path[2]) = 9 + Len(branch_name)
            /\ SubSeq(working_path[2], 1, 9) = <<"w", "o", "r", "k", "t", "r", "e", "e", "-">>
            /\ \A i \in 1..Len(branch_name) :
                  working_path[2][9 + i] = IF branch_name[i] = "/" THEN "-" ELSE branch_name[i])

\* C18: pushed is true only if auto_push was true and a push call of
\* commit_and_push returned without raising (pushed is set by exactly such a
\* step, and a push that raises leaves it alone); when auto_push is false the
\* push tool is never called and pushed stays false.
C18_PushedOnlyAfterPush ==
    /\ [](pushed => auto_push /\ push_calls >= 1)
    /\ [][(pushed' /\ ~pushed) =>
            /\ auto_push
            /\ pc = "commit_and_push"
            /\ push_calls' = push_calls + 1
            /\ tool_log'.push \in {"pushed", "error_text"}]_vars
    /\ [][(commit_runs' # commit_runs /\ tool_log'.push = "raises") => pushed' = pushed]_vars
    /\ [](~auto_push => push_calls = 0 /\ tool_log.push = "none" /\ ~pushed)

C18_PushedAfterPush ==
    /\ pushed
    /\ auto_push
    /\ tool_log.push = "pushed"
    /\ push_calls = 1
    /\ final_status = "completed"

\* an execution of commit_and_push whose commit found nothing to commit
NothingToCommitStep ==
    /\ pc = "commit_and_push"
    /\ commit_runs' = commit_runs + 1
    /\ tool_log'.commit = "nothing_to_commit"

EmittedEvents ==
    {m \in Methods \ {"route_after_review"} : returned[m] # "none"}
        \cup ({returned["route_after_review"]} \ {"none"})

\* C20: the steps of a run execute one after the other: every event emitted in
\* the run starts at most one step, a step starts only when the step that
\* triggered it has returned (for a label, when the router has returned it),
\* and commit_and_push runs only on the router's label or on its own return.
C20_StepsSequential ==
    /\ [](\A e \in EmittedEvents : Cardinality(Triggered(e)) <= 1)
    /\ [][(pc' # pc /\ pc' \in Methods) =>
            /\ pc \in Methods
            /\ returned'[pc] # "none"
            /\ pc' \in (IF pc = "route_after_review" THEN Triggered(returned'[pc])
                                                     ELSE Triggered(pc))]_vars
    /\ [][(commit_runs' # commit_runs) =>
            /\ pc = "commit_and_push"
            /\ IF commit_runs = 0
               THEN returned["route_after_review"] = "commit_and_push"
               ELSE returned["commit_and_push"] # "none"]_vars

C20_WholeRunWithLoop ==
    /\ pc = "done"
    /\ \A m \in Methods : returned[m] # "none"
    /\ review_iterations = 2
    /\ EmittedEvents = Methods \ {"route_after_review"}

\* C21: every tool operation returns a string in all cases: for every failure
\* of the wrapped action (missing path, non-zero exit, missing binary, I/O
\* error, network error, timeout) the call returns a text and does not raise.
C21_ToolsNeverRaise ==
    tool_call.tool # "none" => tool_call.result \in {"text", "error_text"}

\* the number of search attempts made in the call so far
SearchAttempts == Len(web_search.outcomes)

\* C22: a web search makes at most 3 search attempts; a rate-limited attempt
\* number n is followed by a wait of 3n seconds for n = 1, 2 (3 s after the
\* first attempt, 6 s after the second), and a rate-limited third attempt
\* returns the rate-limit message without a wait; when all three attempts are
\* rate-limited the waits are exactly 3 s and 6 s.
C22_SearchBackoff ==
    /\ [](SearchAttempts <= 3)
    /\ [][(web_search' # web_search
                /\ web_search'.outcomes[Len(web_search'.outcomes)] = "rate_limited") =>
            /\ (SearchAttempts' = 1 =>
                    web_search'.waits = Append(web_search.waits, 3)
                        /\ web_search'.result = "none")
            /\ (SearchAttempts' = 2 =>
                    web_search'.waits = Append(web_search.waits, 6)
                        /\ web_search'.result = "none")
            /\ (SearchAttempts' = 3 =>
                    web_search'.waits = web_search.waits
                        /\ web_search'.result = "rate_limited")]_vars
    /\ [](web_search.outcomes = <<"rate_limited", "rate_limited", "rate_limited">>
            => web_search.waits = <<3, 6>> /\ web_search.result = "rate_limited")
    /\ [](web_search.result = "rate_limited" => SearchAttempts = 3)

C22_RateLimitedThreeTimes ==
    /\ web_search.outcomes = <<"rate_limited", "rate_limited", "rate_limited">>
    /\ web_search.waits = <<3, 6>>
    /\ web_search.result = "rate_limited"

\* C23: when fast_mode is true the task description built by implement_changes
\* does not contain the text None and tells the agent to explore the codebase
\* directly; when fast_mode is false it contains the stored research_findings.
C23_FastTaskDescription ==
    impl_task.description # {} =>
        IF fast_mode
        THEN /\ "None" \notin impl_task.description
             /\ \E part \in impl_task.description :
                    part \in {"Explore the codebase directly", "explore", "codebase"}
        ELSE research_findings \in impl_task.description

\* C24: implement_changes builds the implementer with the fast-tier model,
\* obtained exactly once, when fast_mode is true, and with no model override
\* when fast_mode is false.
C24_ImplementerModelTier ==
    impl_task.llm # "none" =>
        IF fast_mode
        THEN impl_task.llm = "fast" /\ impl_task.fast_llm_calls = 1
        ELSE impl_task.llm = "default" /\ impl_task.fast_llm_calls = 0

Validated == validation.validated

C26_AllViolationsReported ==
    (/\ Validated
     /\ Len(validation.user_query) < validation.spec_min_chars
     /\ EntropyBelow(validation.user_query, validation.spec_min_entropy))
        => /\ validation.result.tags = {"input_too_short", "input_low_entropy"}
           /\ validation.result.min_chars_named = {validation.spec_min_chars}
           /\ validation.result.min_entropy_named = {validation.spec_min_entropy}

CliRejects == WouldBeRejected(cli.issue, cli.spec_min_chars, cli.spec_min_entropy)

\* C27: for an issue text that validation would reject, the implement command
\* with --force / --skip-validation logs exactly one warning
\* validation_skipped with rule_skipped = "all", runs the workflow and exits
\* with the code of the workflow result; without the override it exits with
\* code 1 and the workflow is never started.
C27_ForceBypassesValidation ==
    (cli.invoked /\ CliRejects) =>
        IF cli.force
        THEN /\ cli.warnings = <<[event |-> "validation_skipped", rule_skipped |-> "all"]>>
             /\ cli.started = 1
             /\ cli.exit_code = ExitCode(cli.result)
        ELSE /\ cli.exit_code = 1
             /\ cli.started = 0

\* C29: the implement command exits with code 0 exactly when the workflow
\* result has final_status completed, and with code 1 when the input is
\* rejected by validation or the result has final_status error.
C29_ExitCodes ==
    cli.invoked =>
        /\ cli.exit_code = 0 <=> cli.result = "completed"
        /\ (CliRejects /\ ~cli.force) => cli.exit_code = 1
        /\ cli.result = "error" => cli.exit_code = 1

ReviewerAnswered ==
    /\ pc = "review_changes"
    /\ Len(agent_log') = Len(agent_log) + 1
    /\ agent_log'[Len(agent_log')][1] = "reviewer"
    /\ agent_log'[Len(agent_log')][2] # "raised"

\* the words that contain "pass" / "needs_changes" once lower-cased
PassWords == {"PASS", "pass", "Bypassed"}
NeedsChangesWords == {"NEEDS_CHANGES"}

\* C32: the verdict is parsed case-insensitively by substring: review_changes
\* returns passed and sets review_passed exactly when the lower-cased verdict
\* contains "pass" and does not contain "needs_changes"; for every other
\* verdict it returns needs_changes and leaves review_passed unchanged.
C32_VerdictParsing ==
    [][ReviewerAnswered =>
        LET text == review_result'
            passes == /\ \E i \in DOMAIN text : text[i] \in PassWords
                      /\ \A i \in DOMAIN text : text[i] \notin NeedsChangesWords
        IN  IF passes
            THEN returned'["review_changes"] = "passed" /\ review_passed'
            ELSE /\ returned'["review_changes"] = "needs_changes"
                 /\ review_passed' = review_passed]_vars

C32_UpperCaseAndEmbeddedPass ==
    /\ review_result = <<"Bypassed", "PASS">>
    /\ returned["review_changes"] = "passed"
    /\ review_passed
    /\ pc = "route_after_review"

\* every character a lower-case alphanumeric or a hyphen, no two hyphens in a
\* row, no hyphen at either end
WellFormedSlug(s) ==
    /\ \A i \in DOMAIN s : s[i] \in {"a", "b", "1", "-"}
    /\ \A i \in 1..(Len(s) - 1) : ~(s[i] = "-" /\ s[i + 1] = "-")
    /\ s # <<>> => s[1] # "-" /\ s[Len(s)] # "-"

\* C33: with no branch name supplied setup_branch generates one: the configured
\* prefix followed by a slug of the issue text, in which every character is a
\* lower-case alphanumeric or a hyphen, no two hyphens are consecutive and none
\* is leading or trailing; a supplied branch name is kept unchanged.
C33_GeneratedBranchName ==
    [][/\ slugged'.done => WellFormedSlug(slugged'.slug)
       /\ (pc = "setup_branch" /\ branch_name # NoBranch) => branch_name' = branch_name
       /\ (pc = "setup_branch" /\ branch_name = NoBranch /\ repo_exists) =>
             /\ Len(branch_name') >= Len(BranchPrefix)
             /\ SubSeq(branch_name', 1, Len(BranchPrefix)) = BranchPrefix
             /\ WellFormedSlug(SubSeq(branch_name', Len(BranchPrefix) + 1,
                                       Len(branch_name')))]_vars

C33_HyphensCollapsedAndStripped ==
    /\ slugged.done
    /\ slugged.issue = <<" ", "A", "-", "1">>
    /\ slugged.slug = <<"a", "-", "1">>

\* the step is an execution of commit_and_push
CommitExecutes == pc = "commit_and_push" /\ commit_runs' = commit_runs + 1

\* C34: in a normal-mode run commit_and_push executes only in a state where
\* review_passed is true, whichever routing path led to it (reviewer pass,
\* forced pass after the cap, reviewer exception, upstream error signal).
C34_CommitOnlyAfterPassedReview ==
    [][(CommitExecutes /\ ~fast_mode) => review_passed]_vars

\* C35: when the push of commit_and_push fails with a VCS error reported by
\* the push tool, pushed stays false and the run does not end completed; a
\* commit that fails for another reason than nothing-to-commit does not end
\* completed either.
C35_FailedPushOrCommitNotCompleted ==
    [][CommitExecutes =>
        /\ tool_log'.push = "error_text" =>
               pushed' = pushed /\ final_status' # "completed"
        /\ tool_log'.commit = "error_text" => final_status' # "completed"]_vars

\* C36: the error message of the first failing step is preserved: once error
\* is set, no later step of the run replaces it by a different message.
C36_FirstErrorPreserved ==
    [][error # None => error' = error]_vars

Invokes(agent) ==
    /\ Len(agent_log') = Len(agent_log) + 1
    /\ agent_log'[Len(agent_log')][1] = agent

C38_FieldOwnership ==
    [][/\ use_worktree' = use_worktree
       /\ auto_push' = auto_push
       /\ (branch_name' # branch_name \/ working_path' # working_path) =>
             pc = "setup_branch" /\ returned["setup_branch"] = "none"
       /\ (review_iterations' # review_iterations \/ review_passed' # review_passed) =>
             pc = "review_changes"
       /\ (pushed' # pushed \/ commit_message' # commit_message) =>
             pc = "commit_and_push"]_vars

C38_EveryOwnerWrote ==
    /\ pc = "done"
    /\ use_worktree
    /\ working_path # NoPath
    /\ branch_name = GeneratedBranch
    /\ review_iterations = 2
    /\ review_passed
    /\ pushed
    /\ commit_message # None

\* C31: tracing never aborts a workflow: without a backend the run wrapper is
\* a no-op and the flow runs unchanged; with a backend whose span cannot be
\* opened, updated or flushed the workflow still runs to its terminal state
\* and its result is returned to the caller.
C31_TracingNeverAborts ==
    (traced.called /\ traced.kickoff # "raises") =>
        /\ traced.flow_ran
        /\ traced.outcome = "returned"
        /\ traced.result = traced.kickoff

\* C40: in every final state of the chat flow error is set exactly when
\* final_status = error and answer is set exactly when final_status =
\* completed; the two are never both set.
C40_ChatFinalState ==
    chat.runs >= 1 =>
        /\ chat.error # None <=> chat.final_status = "error"
        /\ chat.answer # None <=> chat.final_status = "completed"
        /\ ~(chat.error # None /\ chat.answer # None)

C40_AgentRaisedErrorOnly ==
    /\ chat.runs = 1
    /\ chat.agent = "raises"
    /\ chat.context_path = "existing"
    /\ chat.final_status = "error"
    /\ chat.error # None
    /\ chat.answer = None

====
